---- MODULE Spec2Model ----
(***************************************************************************)
(* gdp_enrollment_scatter_html.py: load merged_clean.csv, choose the years *)
(* to show, draw the static small-multiples PNG, then the interactive      *)
(* faceted HTML.  One run of main() is one behaviour; the CSV file and the *)
(* YEARS setting are the inputs.                                           *)
(***************************************************************************)
EXTENDS Integers, Sequences, FiniteSets, TLC

VARIABLES
  csv,     \* the input file: [exists, columns, rows]
  YEARS,   \* the YEARS setting: [given |-> FALSE] is None, else a list
  pc,      \* position of main(): load, choose, static, panel, interactive, scatter, done, failed
  err,     \* the exception that ended main(), "none" while there is none
  out,     \* what was printed to standard output, in order
  log,     \* the calls of main() that have returned, in order
  df,      \* the table load_and_prepare returned
  years,   \* the list choose_years returned
  fig,     \* make_static_plot's n, cols, rows
  i,       \* make_static_plot's loop index
  axes,    \* make_static_plot's grid of axes, indexed by <<r, c>>
  png,     \* the PNG file
  sub,     \* make_interactive_plot's filtered copy
  html     \* the HTML file

vars == <<csv, YEARS, pc, err, out, log, df, years, fig, i, axes, png, sub, html>>

----------------------------------------------------------------------------
(* Bounds of the explored inputs. *)

MaxYear == 7        \* the tables of InitAuto hold years among 1..MaxYear
MaxListYear == 2    \* an explicit YEARS list holds years among 1..MaxListYear
MaxListLen == 2     \* an explicit YEARS list has at most MaxListLen entries
MaxAnnotRows == 6   \* the one-year tables of InitAnnot have at most MaxAnnotRows rows
MaxSizeRows == 3    \* the tables of InitSizes have at most MaxSizeRows rows

(* Program constants. *)

MAX_PANELS == 6

----------------------------------------------------------------------------
(* Cells of a table.  A cell is what pandas holds after read_csv: an       *)
(* integer, a number with a fractional part (val + 1/2), a string, a       *)
(* boolean or NaN (an empty field).                                        *)

Num(v) == [kind |-> "int", val |-> v]
Frac(v) == [kind |-> "frac", val |-> v]
Text(v) == [kind |-> "text", val |-> v]
Bool(b) == [kind |-> "bool", val |-> IF b THEN 1 ELSE 0]
NaN == [kind |-> "nan", val |-> 0]

isna(c) == c.kind = "nan"

\* pd.to_numeric(..., errors="coerce"): what does not parse becomes NaN
to_numeric(c) ==
  IF c.kind \in {"int", "frac"} THEN c
  ELSE IF c.kind = "bool" THEN Num(c.val)
  ELSE NaN

\* .astype(bool): NaN and every non-empty string are truthy
astype_bool(c) ==
  IF c.kind = "bool" THEN c
  ELSE IF c.kind = "int" THEN Bool(c.val # 0)
  ELSE Bool(TRUE)

\* .fillna(v)
fillna(c, v) == IF isna(c) THEN v ELSE c.val

min(a, b) == IF a <= b THEN a ELSE b

Range(s) == {s[k] : k \in 1..Len(s)}

----------------------------------------------------------------------------
(* Frames: the columns, the index labels and the rows (each a function     *)
(* from the columns to cells).                                             *)

EmptyFrame == [columns |-> {}, index |-> <<>>, rows |-> <<>>]

\* frame[name] = values
setcol(d, name, values) ==
  [d EXCEPT !.columns = @ \cup {name},
            !.rows = [k \in 1..Len(d.rows) |->
                        [c \in d.columns \cup {name} |->
                           IF c = name THEN values[k] ELSE d.rows[k][c]]]]

\* pd.to_numeric(df.get(name, pd.Series()), errors="coerce"), aligned on the
\* frame's index by the assignment: an absent column gives NaN in every row
get_numeric(d, name) ==
  [k \in 1..Len(d.rows) |->
     IF name \in d.columns THEN to_numeric(d.rows[k][name]) ELSE NaN]

\* frame[mask].copy(): the rows at the positions ks, with their labels
take(d, ks) ==
  [columns |-> d.columns,
   index |-> [j \in 1..Len(ks) |-> d.index[ks[j]]],
   rows |-> [j \in 1..Len(ks) |-> d.rows[ks[j]]]]

positions(d) == [k \in 1..Len(d.rows) |-> k]

----------------------------------------------------------------------------
(* load_and_prepare *)

EXPECTED ==
  <<"country", "year", "gdp", "enrollment", "gdp_pct_change",
    "enrollment_pct_change", "both_increase">>

Printed(msg, col) == [msg |-> msg, col |-> col]

\* the loop over the expected columns: one warning per absent column
warnings(columns) ==
  LET absent(c) == c \notin columns
      cs == SelectSeq(EXPECTED, absent)
  IN [k \in 1..Len(cs) |-> Printed("Warning: column not present", cs[k])]

load_and_prepare(file) ==
  IF ~file.exists
  THEN [err |-> "FileNotFoundError", out |-> <<>>, df |-> EmptyFrame]
  ELSE
    LET d0 == [columns |-> file.columns,
               index |-> [k \in 1..Len(file.rows) |-> k],
               rows |-> file.rows]
        w == warnings(d0.columns)
    IN IF "year" \notin d0.columns
       THEN [err |-> "KeyError: year", out |-> w, df |-> EmptyFrame]
       ELSE IF \E k \in 1..Len(d0.rows) : to_numeric(d0.rows[k]["year"]).kind = "frac"
       THEN [err |-> "TypeError: cannot safely cast", out |-> w, df |-> EmptyFrame]
       ELSE
         LET d1 == setcol(d0, "year", get_numeric(d0, "year"))
             d2 == setcol(d1, "gdp_numeric", get_numeric(d1, "gdp"))
             d3 == setcol(d2, "enrollment_numeric", get_numeric(d2, "enrollment"))
             d4 == setcol(d3, "gdp_pct_change", get_numeric(d3, "gdp_pct_change"))
             d5 == setcol(d4, "enrollment_pct_change",
                          get_numeric(d4, "enrollment_pct_change"))
             d6 == IF "both_increase" \in d5.columns
                   THEN setcol(d5, "both_increase",
                               [k \in 1..Len(d5.rows) |->
                                  astype_bool(d5.rows[k]["both_increase"])])
                   ELSE d5
         IN [err |-> "none", out |-> w, df |-> d6]

----------------------------------------------------------------------------
(* choose_years *)

None == [given |-> FALSE, list |-> <<>>]
List(s) == [given |-> TRUE, list |-> s]

\* `if YEARS:` : None and the empty list are both falsy
truthy(Y) == Y.given /\ Len(Y.list) > 0

\* df["year"].dropna().unique()
unique_years(d) ==
  {d.rows[k]["year"].val : k \in {j \in 1..Len(d.rows) : ~isna(d.rows[j]["year"])}}

RECURSIVE sorted(_)
sorted(S) ==
  IF S = {} THEN <<>>
  ELSE LET m == CHOOSE x \in S : \A y \in S : x <= y
       IN <<m>> \o sorted(S \ {m})

\* s[:n] in place of s[-n:]
tail_slice_head(s, n) ==
  IF n >= Len(s) THEN s ELSE SubSeq(s, 1, n)

\* s[-n:]
tail_slice(s, n) ==
  IF n = 0 \/ n >= Len(s) THEN s ELSE SubSeq(s, Len(s) - n + 1, Len(s))

\* the comprehension run over yrs in place of YEARS
choose_years_by_table(d, Y) ==
  LET yrs == sorted(unique_years(d))
  IN IF truthy(Y)
     THEN LET asked(y) == y \in Range(Y.list)
              use == SelectSeq(yrs, asked)
          IN IF use = <<>>
             THEN [err |-> "ValueError: No requested YEARS", use |-> <<>>]
             ELSE [err |-> "none", use |-> use]
     ELSE [err |-> "none", use |-> tail_slice(sorted(Range(yrs)), MAX_PANELS)]

\* the explicit list returned without the `if y in yrs` filter
choose_years_unfiltered(d, Y) ==
  LET yrs == sorted(unique_years(d))
  IN IF truthy(Y)
     THEN [err |-> "none", use |-> Y.list]
     ELSE [err |-> "none", use |-> tail_slice(sorted(Range(yrs)), MAX_PANELS)]

choose_years(d, Y) ==
  LET yrs == sorted(unique_years(d))
  IN IF truthy(Y)
     THEN LET present(y) == y \in Range(yrs)
              use == SelectSeq(Y.list, present)
          IN IF use = <<>>
             THEN [err |-> "ValueError: No requested YEARS", use |-> <<>>]
             ELSE [err |-> "none", use |-> use]
     ELSE [err |-> "none", use |-> tail_slice(sorted(Range(yrs)), MAX_PANELS)]

----------------------------------------------------------------------------
(* make_static_plot *)

\* rows = n // cols in place of (n + cols - 1) // cols
grid_layout_floor(n) ==
  LET cols == min(3, n)
  IN IF cols = 0
     THEN [err |-> "ZeroDivisionError", n |-> n, cols |-> 0, rows |-> 0]
     ELSE [err |-> "none", n |-> n, cols |-> cols, rows |-> n \div cols]

\* n, cols, rows; the floor division by cols raises when cols is 0
grid_layout(n) ==
  LET cols == min(3, n)
  IN IF cols = 0
     THEN [err |-> "ZeroDivisionError", n |-> n, cols |-> 0, rows |-> 0]
     ELSE [err |-> "none", n |-> n, cols |-> cols, rows |-> (n + cols - 1) \div cols]

NoFig == [err |-> "none", n |-> 0, cols |-> 0, rows |-> 0]

\* an axis as plt.subplots makes it; panels holds the loop indices that drew on it
BlankAxis ==
  [on |-> TRUE, title |-> <<>>, nodata |-> FALSE, data |-> {}, texts |-> {},
   panels |-> {}]

subplots(rows, cols) ==
  [p \in (0..(rows - 1)) \X (0..(cols - 1)) |-> BlankAxis]

NoAxes == subplots(0, 0)

\* the cell of loop index j
cell_of(j, g) == <<j \div g.cols, j % g.cols>>

\* df[df["year"] == year].copy()
rows_of_year(d, year) ==
  LET hit(k) == ~isna(d.rows[k]["year"]) /\ d.rows[k]["year"].val = year
  IN take(d, SelectSeq(positions(d), hit))

\* the square of dist: sqrt is increasing, so dist orders the rows as its square does
dist2(row) ==
  LET x == fillna(row["gdp_pct_change"], 0)
      y == fillna(row["enrollment_pct_change"], 0)
  IN x * x + y * y

\* ascending=True in place of ascending=False
head_sets_ascending(s) ==
  LET idx == 1..Len(s.rows)
      m == min(5, Len(s.rows))
  IN {T \in SUBSET idx :
        /\ Cardinality(T) = m
        /\ \A a \in T : \A b \in idx \ T : dist2(s.rows[a]) <= dist2(s.rows[b])}

\* sort_values("dist", ascending=False).head(5): the positions kept.  The
\* sort is not stable, so among rows of equal dist any may be kept.
head_sets(s) ==
  LET idx == 1..Len(s.rows)
      m == min(5, Len(s.rows))
  IN {T \in SUBSET idx :
        /\ Cardinality(T) = m
        /\ \A a \in T : \A b \in idx \ T : dist2(s.rows[a]) >= dist2(s.rows[b])}

\* the loop over top: a row with a null percent change is skipped
annotated(s, T) ==
  {s.index[k] : k \in {j \in T : /\ ~isna(s.rows[j]["gdp_pct_change"])
                                 /\ ~isna(s.rows[j]["enrollment_pct_change"])}}

\* one pass of the loop body on axis ax: the outcomes it can have
draw_panel(d, ax, year, ii) ==
  LET s == rows_of_year(d, year)
  IN IF Len(s.rows) = 0
     THEN {[err |-> "none",
            ax |-> [ax EXCEPT !.title = <<year>>, !.nodata = TRUE, !.on = FALSE,
                              !.panels = @ \cup {ii}]]}
     ELSE IF "both_increase" \notin s.columns
     THEN {[err |-> "ValueError: hue", ax |-> ax]}
     ELSE {[err |-> "none",
            ax |-> [ax EXCEPT !.title = <<year>>, !.data = @ \cup Range(s.index),
                              !.texts = @ \cup annotated(s, T),
                              !.panels = @ \cup {ii}]] : T \in head_sets(s)}

\* the loop that turns the unused axes off
hide_unused(grid, g) ==
  [p \in DOMAIN grid |->
     IF \E j \in g.n..(g.rows * g.cols - 1) : p = cell_of(j, g)
     THEN [grid[p] EXCEPT !.on = FALSE]
     ELSE grid[p]]

----------------------------------------------------------------------------
(* make_interactive_plot *)

\* df[df["year"].isin(years)].copy()
rows_isin(d, ys) ==
  LET hit(k) == ~isna(d.rows[k]["year"]) /\ d.rows[k]["year"].val \in Range(ys)
  IN take(d, SelectSeq(positions(d), hit))

\* a size num/den
Ratio(n, d) == [num |-> n, den |-> d]

\* fillna(0) in place of fillna(min_g)
marker_sizes_fill0(s) ==
  LET idx == 1..Len(s.rows)
      g(k) == s.rows[k]["gdp_numeric"]
      nonnull == {g(k).val : k \in {j \in idx : ~isna(g(j))}}
  IN IF nonnull # {}
     THEN LET min_g == CHOOSE v \in nonnull : \A w \in nonnull : v <= w
              max_g == CHOOSE v \in nonnull : \A w \in nonnull : v >= w
          IN IF max_g > min_g
             THEN [k \in idx |->
                     Ratio(15 * (max_g - min_g) + 85 * (fillna(g(k), 0) - min_g),
                           max_g - min_g)]
             ELSE [k \in idx |-> Ratio(35, 1)]
     ELSE [k \in idx |-> Ratio(25, 1)]

marker_sizes(s) ==
  LET idx == 1..Len(s.rows)
      g(k) == s.rows[k]["gdp_numeric"]
      nonnull == {g(k).val : k \in {j \in idx : ~isna(g(j))}}
  IN IF nonnull # {}
     THEN LET min_g == CHOOSE v \in nonnull : \A w \in nonnull : v <= w
              max_g == CHOOSE v \in nonnull : \A w \in nonnull : v >= w
          IN IF max_g > min_g
             THEN [k \in idx |->
                     Ratio(15 * (max_g - min_g) + 85 * (fillna(g(k), min_g) - min_g),
                           max_g - min_g)]
             ELSE [k \in idx |-> Ratio(35, 1)]
     ELSE [k \in idx |-> Ratio(25, 1)]

\* a size column set on the caller's table as well
assign_size_inplace(d, s) ==
  [df |-> setcol(d, "size", [k \in 1..Len(d.rows) |-> Ratio(25, 1)]),
   sub |-> setcol(s, "size", marker_sizes(s))]

\* sub["size"] = ... : the column goes to the copy, the caller's table is not touched
assign_size(d, s) == [df |-> d, sub |-> setcol(s, "size", marker_sizes(s))]

HOVER ==
  {"country", "year", "gdp_numeric", "enrollment_numeric", "gdp_pct_change",
   "enrollment_pct_change", "both_increase"}

\* px.scatter(...) up to write_html: the error it raises, if any
scatter_error(s) ==
  IF "both_increase" \notin s.columns THEN "KeyError: both_increase"
  ELSE IF ~(HOVER \subseteq s.columns) THEN "ValueError: hover_data"
  ELSE "none"

NoFile == [written |-> FALSE]

----------------------------------------------------------------------------
(* Inputs *)

FullRow(country, year, gdp, x, y, both) ==
  [iso3 |-> country, country |-> country, year |-> year, gdp |-> gdp,
   enrollment |-> Num(10), gdp_pct_change |-> x, enrollment_pct_change |-> y,
   both_increase |-> both]

\* every file holds a column the script does not use
UNUSED == "iso3"

AllColumns == Range(EXPECTED) \cup {UNUSED}

Restrict(rows, columns) ==
  [k \in 1..Len(rows) |-> [c \in columns |-> rows[k][c]]]

File(columns, rows) ==
  [exists |-> TRUE, columns |-> columns, rows |-> Restrict(rows, columns)]

Missing == [exists |-> FALSE, columns |-> {}, rows |-> <<>>]

SeqsUpTo(S, n) == UNION {[1..m -> S] : m \in 0..n}

\* tables for the runs that vary the columns present
ColumnTables ==
  { <<FullRow(Text(1), Num(2), Num(50), Num(3), Num(4), Bool(TRUE)),
      FullRow(Text(2), Num(1), Num(100), Num(1), Num(1), Bool(FALSE))>>,
    <<FullRow(Text(1), Text(9), Text(9), Text(9), NaN, NaN),
      FullRow(Text(2), Num(1), NaN, Num(0 - 2), NaN, Bool(FALSE))>>,
    <<FullRow(Text(1), Frac(1), Num(50), Num(3), Num(4), Bool(TRUE))>>,
    <<>> }

YearRow(y) == FullRow(Text(y), Num(y), Num(10 * y), Num(y), Num(0 - y), Bool(TRUE))

\* a table whose non-null years are P: newest first, then a row without a
\* year, then the oldest year once more
TableOfYears(P) ==
  LET s == sorted(P)
      n == Len(s)
  IN [k \in 1..n |-> YearRow(s[n + 1 - k])]
     \o <<FullRow(Text(0), NaN, Num(5), Num(1), Num(1), Bool(FALSE))>>
     \o (IF n > 0 THEN <<YearRow(s[1])>> ELSE <<>>)

\* the explicit lists, the empty one included
ExplicitLists == {List(s) : s \in SeqsUpTo(1..MaxListYear, MaxListLen)}

\* the percent-change pairs of the one-year tables
XYPairs == { <<Num(3), Num(4)>>, <<Num(1), Num(1)>>, <<NaN, Num(5)>> }

AnnotTable(s) ==
  [k \in 1..Len(s) |-> FullRow(Text(k), Num(1), Num(k), s[k][1], s[k][2], Bool(TRUE))]

GdpCells == { NaN, Num(0), Num(50), Num(100) }

SizeTable(s) ==
  [k \in 1..Len(s) |-> FullRow(Text(k), Num(s[k][1]), s[k][2], Num(k), Num(1), Bool(FALSE))]

Start ==
  /\ pc = "load"
  /\ err = "none"
  /\ out = <<>>
  /\ log = <<>>
  /\ df = EmptyFrame
  /\ years = <<>>
  /\ fig = NoFig
  /\ i = 0
  /\ axes = NoAxes
  /\ png = NoFile
  /\ sub = EmptyFrame
  /\ html = NoFile

InitColumns ==
  /\ YEARS = None
  /\ \/ csv = Missing
     \/ \E columns \in SUBSET Range(EXPECTED) : \E t \in ColumnTables :
          csv = File(columns \cup {UNUSED}, t)
  /\ Start

InitAuto ==
  /\ YEARS = None
  /\ \E P \in SUBSET (1..MaxYear) : csv = File(AllColumns, TableOfYears(P))
  /\ Start

\* the tables hold years among those a list can name and one year more
InitExplicit ==
  /\ YEARS \in ExplicitLists
  /\ \E P \in SUBSET (1..(MaxListYear + 1)) : csv = File(AllColumns, TableOfYears(P))
  /\ Start

InitAnnot ==
  /\ YEARS = None
  /\ \E s \in SeqsUpTo(XYPairs, MaxAnnotRows) : csv = File(AllColumns, AnnotTable(s))
  /\ Start

InitSizes ==
  /\ YEARS = List(<<1>>)
  /\ \E s \in SeqsUpTo((1..2) \X GdpCells, MaxSizeRows) :
       Len(s) > 0 /\ csv = File(AllColumns, SizeTable(s))
  /\ Start

Init == InitColumns \/ InitAuto \/ InitExplicit \/ InitAnnot \/ InitSizes

----------------------------------------------------------------------------
(* main *)

Raise(e) == pc' = "failed" /\ err' = e

\* df = load_and_prepare(MERGED_CSV)
Load ==
  /\ pc = "load"
  /\ LET r == load_and_prepare(csv)
     IN /\ out' = out \o r.out
        /\ df' = r.df
        /\ IF r.err = "none"
           THEN pc' = "choose" /\ log' = Append(log, "load") /\ err' = err
           ELSE Raise(r.err) /\ log' = log
  /\ UNCHANGED <<csv, YEARS, years, fig, i, axes, png, sub, html>>

\* years = choose_years(df); print("Plotting years:", years)
Choose ==
  /\ pc = "choose"
  /\ LET r == choose_years(df, YEARS)
     IN IF r.err = "none"
        THEN /\ years' = r.use
             /\ pc' = "static"
             /\ log' = Append(log, "choose")
             /\ out' = Append(out, Printed("Plotting years:", ""))
             /\ err' = err
        ELSE Raise(r.err) /\ UNCHANGED <<years, log, out>>
  /\ UNCHANGED <<csv, YEARS, df, fig, i, axes, png, sub, html>>

\* make_static_plot up to plt.subplots
StaticLayout ==
  /\ pc = "static"
  /\ LET g == grid_layout(Len(years))
     IN /\ fig' = g
        /\ IF g.err = "none"
           THEN pc' = "panel" /\ axes' = subplots(g.rows, g.cols) /\ err' = err
           ELSE Raise(g.err) /\ axes' = axes
  /\ i' = 0
  /\ UNCHANGED <<csv, YEARS, out, log, df, years, png, sub, html>>

\* one pass of the loop over the years
StaticPanel ==
  /\ pc = "panel"
  /\ i < fig.n
  /\ LET cell == cell_of(i, fig)
     IN IF cell \notin DOMAIN axes
        THEN Raise("IndexError") /\ UNCHANGED <<axes, i>>
        ELSE \E o \in draw_panel(df, axes[cell], years[i + 1], i) :
               IF o.err = "none"
               THEN /\ axes' = [axes EXCEPT ![cell] = o.ax]
                    /\ i' = i + 1
                    /\ UNCHANGED <<pc, err>>
               ELSE Raise(o.err) /\ UNCHANGED <<axes, i>>
  /\ UNCHANGED <<csv, YEARS, out, log, df, years, fig, png, sub, html>>

\* the unused axes are turned off and the figure is saved
StaticFinish ==
  /\ pc = "panel"
  /\ i = fig.n
  /\ axes' = hide_unused(axes, fig)
  /\ png' = [written |-> TRUE, axes |-> axes']
  /\ out' = Append(out, Printed("Saved static scatter PNG:", ""))
  /\ log' = Append(log, "static")
  /\ pc' = "interactive"
  /\ UNCHANGED <<csv, YEARS, err, df, years, fig, i, sub, html>>

\* make_interactive_plot up to the size column
InteractiveSizes ==
  /\ pc = "interactive"
  /\ LET r == assign_size(df, rows_isin(df, years))
     IN df' = r.df /\ sub' = r.sub
  /\ pc' = "scatter"
  /\ UNCHANGED <<csv, YEARS, err, out, log, years, fig, i, axes, png, html>>

\* px.scatter, write_html and the last print of main
InteractiveScatter ==
  /\ pc = "scatter"
  /\ LET e == scatter_error(sub)
     IN IF e = "none"
        THEN /\ html' = [written |-> TRUE, frame |-> sub]
             /\ out' = out \o <<Printed("Saved interactive scatter HTML:", ""),
                                Printed("Done.", "")>>
             /\ log' = Append(log, "interactive")
             /\ pc' = "done"
             /\ err' = err
        ELSE Raise(e) /\ UNCHANGED <<html, out, log>>
  /\ UNCHANGED <<csv, YEARS, df, years, fig, i, axes, png, sub>>

Next ==
  \/ Load
  \/ Choose
  \/ StaticLayout
  \/ StaticPanel
  \/ StaticFinish
  \/ InteractiveSizes
  \/ InteractiveScatter

Spec == Init /\ [][Next]_vars

----------------------------------------------------------------------------
(* Properties *)

Loaded == Len(log) >= 1
Chosen == Len(log) >= 2

\* the non-null years of the loaded table, read off its rows
TableYears ==
  {df.rows[k]["year"].val : k \in {j \in 1..Len(df.rows) : df.rows[j]["year"].kind = "int"}}

WarnedColumns ==
  {out[k].col : k \in {j \in 1..Len(out) : out[j].msg = "Warning: column not present"}}

WarningCount ==
  Cardinality({j \in 1..Len(out) : out[j].msg = "Warning: column not present"})

\* C1: whenever the input file exists, whichever of the expected columns it
\* lacks, load_and_prepare returns a table and has printed exactly one
\* warning for each expected column the file lacks.
C1_LoaderFailsOnlyOnMissingFile ==
  (csv.exists /\ pc # "load") =>
     /\ Loaded
     /\ WarnedColumns = Range(EXPECTED) \ csv.columns
     /\ WarningCount = Cardinality(Range(EXPECTED) \ csv.columns)

Steps == <<"load", "choose", "static", "interactive">>

\* the file is absent, or a non-empty explicit list has none of its years in the table
Fatal ==
  \/ ~csv.exists
  \/ /\ YEARS.given
     /\ Len(YEARS.list) > 0
     /\ Loaded
     /\ \A k \in 1..Len(YEARS.list) : YEARS.list[k] \notin TableYears

\* C2: the steps of main return in the order load, choose, static,
\* interactive; the HTML is never written before the PNG; a run that ends on
\* a missing file or on an explicit list with no year in the data writes
\* neither file, and every other run ends normally with both files written.
C2_MainOrderAndOutputs ==
  /\ Len(log) <= Len(Steps)
  /\ \A k \in 1..Len(log) : log[k] = Steps[k]
  /\ html.written => png.written
  /\ (pc \in {"done", "failed"} /\ Fatal) => (~png.written /\ ~html.written)
  /\ (pc \in {"done", "failed"} /\ ~Fatal) =>
        (pc = "done" /\ err = "none" /\ png.written /\ html.written)

\* the entries of the explicit list that are years of the table, in the list's order
Requested ==
  LET inTable(y) == y \in TableYears
  IN SelectSeq(YEARS.list, inTable)

\* the k largest years of the table, ascending, k = min(6, number of years)
IsMostRecent(ys) ==
  /\ Len(ys) = (IF Cardinality(TableYears) < 6 THEN Cardinality(TableYears) ELSE 6)
  /\ \A a \in 1..Len(ys) : \A b \in 1..Len(ys) : a < b => ys[a] < ys[b]
  /\ Range(ys) \subseteq TableYears
  /\ \A y \in TableYears \ Range(ys) : \A z \in Range(ys) : y < z

\* C3 as stated: for every explicit list, the empty one included, choose_years
\* returns the list's entries present in the table, in list order, and raises
\* when there are none.
C3_ExplicitNeverAuto ==
  (YEARS.given /\ Loaded /\ pc # "choose") =>
     IF Requested = <<>>
     THEN pc = "failed" /\ err = "ValueError: No requested YEARS" /\ ~Chosen
     ELSE Chosen /\ years = Requested

\* C3 amended: for every non-empty explicit list choose_years returns the
\* list's entries present in the table, in list order, and raises when
\* there are none; an empty explicit list is treated as no list, and the
\* most recent years are selected.
C3_ExplicitNonEmpty ==
  (YEARS.given /\ Loaded /\ pc # "choose") =>
     IF Len(YEARS.list) = 0
     THEN Chosen /\ IsMostRecent(years)
     ELSE IF Requested = <<>>
     THEN pc = "failed" /\ err = "ValueError: No requested YEARS" /\ ~Chosen
     ELSE Chosen /\ years = Requested

\* an explicit list in descending order, both years in the table, was kept as given
C3_Witness ==
  /\ pc = "static"
  /\ YEARS.given
  /\ Len(YEARS.list) >= 2
  /\ YEARS.list[1] > YEARS.list[2]
  /\ years = YEARS.list

\* C4: without an explicit list choose_years returns the min(6, k) largest
\* of the k distinct non-null years, strictly ascending, and choosing again
\* on the table returns the same sequence.
C4_AutoSelectsMostRecent ==
  (~YEARS.given /\ Chosen) =>
     /\ IsMostRecent(years)
     /\ choose_years(df, YEARS).use = years

\* more than 6 distinct years, 6 selected
C4_Witness ==
  /\ ~YEARS.given
  /\ pc = "static"
  /\ Cardinality(TableYears) > 6
  /\ Len(years) = 6

\* C5: every selected year is the year of a row of the table, and no panel
\* is the "(no data)" placeholder: every axis the loop drew on holds rows.
C5_NoPlaceholder ==
  /\ Chosen => \A k \in 1..Len(years) : years[k] \in TableYears
  /\ \A p \in DOMAIN axes :
       /\ ~axes[p].nodata
       /\ axes[p].panels # {} => (axes[p].data # {} /\ axes[p].title # <<>>)

\* the PNG was saved for an explicit list that names a year the table lacks
C5_Witness ==
  /\ png.written
  /\ YEARS.given
  /\ \E k \in 1..Len(YEARS.list) : YEARS.list[k] \notin TableYears
  /\ \E p \in DOMAIN axes : axes[p].panels # {}

\* C6: for n >= 1 years the grid has min(3, n) columns and ceil(n / cols)
\* rows, the i-th year is drawn in cell (i div cols, i mod cols) and in no
\* other, every cell is inside the grid, and in the saved figure exactly the
\* cells n .. rows*cols-1 are off.
C6_GridLayout ==
  (fig.n >= 1) =>
     /\ fig.n = Len(years)
     /\ fig.cols = (IF fig.n < 3 THEN fig.n ELSE 3)
     /\ fig.rows * fig.cols >= fig.n
     /\ fig.n > (fig.rows - 1) * fig.cols
     /\ DOMAIN axes = (0..(fig.rows - 1)) \X (0..(fig.cols - 1))
     /\ err # "IndexError"
     /\ \A j \in 0..(i - 1) :
          /\ <<j \div fig.cols, j % fig.cols>> \in DOMAIN axes
          /\ axes[<<j \div fig.cols, j % fig.cols>>].panels = {j}
     /\ \A p \in DOMAIN axes :
          \A j \in axes[p].panels : p = <<j \div fig.cols, j % fig.cols>>
     /\ png.written =>
          \A j \in 0..(fig.rows * fig.cols - 1) :
             png.axes[<<j \div fig.cols, j % fig.cols>>].on = (j < fig.n)

\* a saved figure of 4 panels: a second row with two cells off
C6_Witness ==
  /\ png.written
  /\ fig.n = 4
  /\ fig.rows = 2
  /\ ~png.axes[<<1, 1>>].on
  /\ ~png.axes[<<1, 2>>].on
  /\ png.axes[<<1, 0>>].on

\* the square of a row's distance from the origin, a null counted as 0
SqDist(r) ==
  LET x == IF df.rows[r]["gdp_pct_change"].kind = "nan"
           THEN 0 ELSE df.rows[r]["gdp_pct_change"].val
      y == IF df.rows[r]["enrollment_pct_change"].kind = "nan"
           THEN 0 ELSE df.rows[r]["enrollment_pct_change"].val
  IN x * x + y * y

BothPresent(r) ==
  /\ df.rows[r]["gdp_pct_change"].kind # "nan"
  /\ df.rows[r]["enrollment_pct_change"].kind # "nan"

\* C7: in every drawn panel at most 5 rows are annotated, each has both
\* percent changes, fewer than 5 rows of the panel lie farther from the origin
\* than an annotated row, and a row with both percent changes that is not
\* annotated has at least 5 other rows at its distance or farther.
C7_Annotations ==
  \A p \in DOMAIN axes :
     LET D == axes[p].data
         T == axes[p].texts
     IN /\ T \subseteq D
        /\ Cardinality(T) <= 5
        /\ \A r \in T :
             /\ BothPresent(r)
             /\ Cardinality({q \in D : SqDist(q) > SqDist(r)}) < 5
        /\ \A r \in D \ T :
             BothPresent(r) =>
                Cardinality({q \in D \ {r} : SqDist(q) >= SqDist(r)}) >= 5

\* a panel of more than 5 rows in which a row with a null took one of the 5
\* places, while a nearer row with both values went without a name
C7_Witness ==
  /\ png.written
  /\ \E p \in DOMAIN axes :
       /\ Cardinality(axes[p].data) > 5
       /\ Cardinality(axes[p].texts) < 5
       /\ Cardinality(axes[p].texts) > 0
       /\ \E r \in axes[p].data \ axes[p].texts : BothPresent(r)

\* the rows make_interactive_plot keeps, and their non-null gdp_numeric values
SelectedRows ==
  {k \in 1..Len(df.rows) :
     df.rows[k]["year"].kind = "int" /\ df.rows[k]["year"].val \in Range(years)}

SelectedGdp ==
  {df.rows[k]["gdp_numeric"].val :
     k \in {j \in SelectedRows : df.rows[j]["gdp_numeric"].kind = "int"}}

MinGdp == CHOOSE v \in SelectedGdp : \A w \in SelectedGdp : v <= w
MaxGdp == CHOOSE v \in SelectedGdp : \A w \in SelectedGdp : v >= w

\* C8: once the size column is set, every row of the filtered table has a
\* size: 25 when no gdp_numeric is present, 35 when all present values are
\* equal, else 15 + 85*(g - min)/(max - min) for a present g; the size is
\* always within [15, 100].
C8_MarkerSizes ==
  ("size" \in sub.columns) =>
     /\ Len(sub.rows) = Cardinality(SelectedRows)
     /\ \A j \in 1..Len(sub.rows) :
          LET s == sub.rows[j]["size"]
              g == df.rows[sub.index[j]]["gdp_numeric"]
          IN /\ sub.index[j] \in SelectedRows
             /\ s.den > 0
             /\ 15 * s.den <= s.num
             /\ s.num <= 100 * s.den
             /\ SelectedGdp = {} => s.num = 25 * s.den
             /\ (SelectedGdp # {} /\ MinGdp = MaxGdp) => s.num = 35 * s.den
             /\ (SelectedGdp # {} /\ MinGdp < MaxGdp /\ g.kind = "int") =>
                   s.num * (MaxGdp - MinGdp) =
                     (15 * (MaxGdp - MinGdp) + 85 * (g.val - MinGdp)) * s.den

\* gdp 0, 50, 100: the sizes 15, 57.5 and 100
C8_Witness ==
  /\ "size" \in sub.columns
  /\ Len(sub.rows) = 3
  /\ sub.rows[1]["gdp_numeric"] = Num(0)
  /\ sub.rows[2]["gdp_numeric"] = Num(50)
  /\ sub.rows[3]["gdp_numeric"] = Num(100)
  /\ sub.rows[1]["size"].num = 15 * sub.rows[1]["size"].den
  /\ 2 * sub.rows[2]["size"].num = 115 * sub.rows[2]["size"].den
  /\ sub.rows[3]["size"].num = 100 * sub.rows[3]["size"].den

\* C9: with no explicit list and no non-null year in the table (a file that
\* holds every expected column), choose_years returns the empty list,
\* make_static_plot returns without raising and main reaches
\* make_interactive_plot.
C9_EmptyYearsRenders ==
  (/\ ~YEARS.given
   /\ Loaded
   /\ AllColumns \subseteq csv.columns
   /\ TableYears = {}
   /\ pc \notin {"choose", "static", "panel"}) =>
     /\ years = <<>>
     /\ Len(log) >= 3
     /\ log[3] = "static"
     /\ png.written

====
